---- MODULE Spec2Model ----
(***************************************************************************)
(* Model of the two file organizers of the repository:                    *)
(*   generate_folders.py       ("gf")                                      *)
(*   organize_with_gemini.py   ("owg")                                     *)
(* Strings are sequences of one-character strings, so that the sanitizers  *)
(* and the path helpers are computed character by character as the code   *)
(* computes them.  A non-ASCII letter is written by its code point.        *)
(***************************************************************************)
EXTENDS Integers, Sequences, FiniteSets, TLC

VARIABLES
    args,         \* the parsed command line of the run
    src,          \* input directory: regular file name -> content
    outExists,    \* the output directory exists
    outdir,       \* output directory: child name -> entry (dir with files, or file)
    pc,           \* position of main / process_files
    files,        \* the selected files, in processing order
    idx,          \* index of the next file of the loop
    exitCode,     \* process exit status (NoExit while running)
    log,          \* one record per item the loop body handled
    warnings,     \* number of "no API key" warnings emitted
    processed,    \* organize_with_gemini: num_processed
    ai_generated, \* organize_with_gemini: num_ai_generated
    before,       \* the file system as it was when the run started
    callers,      \* concurrent allocation: the position of each caller
    bot,          \* chat-bot scripts: one call of send_file
    joiner,       \* join_group: the list being processed and joined_groups
    chat,         \* groups_file: one call of send_file_to_chat
    tree,         \* selector: the entries below the input directory
    selected,     \* selector: the files listed and the files kept
    raw,          \* sanitizers: the raw name
    sanitized,    \* sanitizers: results of both sanitizers
    desired,      \* allocator: the desired name of the successive calls
    returned      \* allocator: the paths returned so far

runVars == <<args, src, outExists, outdir, pc, files, idx, exitCode, log,
             warnings, processed, ai_generated, before>>
sanVars == <<raw, sanitized>>
allocVars == <<desired, returned>>
vars == <<args, src, outExists, outdir, pc, files, idx, exitCode, log,
          warnings, processed, ai_generated, before, callers, bot, tree, joiner, chat, selected, raw, sanitized, desired,
          returned>>

----------------------------------------------------------------------------
(* Bounds of the model *)

\* longest raw name given to the sanitizers
MaxLen == 3

\* largest number of files in the input directory of a run
MaxFiles == 2

\* number of successive allocations against one root
MaxCalls == 3

\* number of callers allocating at the same time
NumCallers == 2

\* largest number of lines of a group list file
MaxLines == 2

\* largest number of paths the upload pattern matches
MaxPaths == 2

\* largest number of entries (files and directories) below an input directory
MaxEntries == 3

----------------------------------------------------------------------------
(* Characters *)

LowerLetters ==
    {"a","b","c","d","e","f","g","h","i","j","k","l","m",
     "n","o","p","q","r","s","t","u","v","w","x","y","z"}

UpperLetters ==
    {"A","B","C","D","E","F","G","H","I","J","K","L","M",
     "N","O","P","Q","R","S","T","U","V","W","X","Y","Z"}

Digits == {"0","1","2","3","4","5","6","7","8","9"}

\* letters outside ASCII for which str.isalnum() is true (U+00E9 is e-acute)
UnicodeAlnum == {"U+00E9"}

\* the character class [A-Za-z0-9._-] of the regular expression
AsciiAllowed == LowerLetters \cup UpperLetters \cup Digits \cup {".", "_", "-"}

\* str.isalnum() of one character
IsAlnum(ch) == ch \in LowerLetters \cup UpperLetters \cup Digits \cup UnicodeAlnum

Item == <<"i","t","e","m">>

----------------------------------------------------------------------------
(* String helpers *)

\* str.strip(chars): drop leading and trailing characters that are in chars
RECURSIVE LStrip(_, _)
LStrip(s, chars) ==
    IF s # <<>> /\ Head(s) \in chars THEN LStrip(Tail(s), chars) ELSE s

RECURSIVE RStrip(_, _)
RStrip(s, chars) ==
    IF s # <<>> /\ s[Len(s)] \in chars
    THEN RStrip(SubSeq(s, 1, Len(s) - 1), chars)
    ELSE s

Strip(s, chars) == RStrip(LStrip(s, chars), chars)

\* re.sub(r"[^A-Za-z0-9._-]", "-", name)
SubDisallowed(name) ==
    [i \in 1..Len(name) |-> IF name[i] \in AsciiAllowed THEN name[i] ELSE "-"]

\* re.sub(r"-+", "-", s): every maximal run of dashes becomes one dash
RECURSIVE CollapseDashes(_)
CollapseDashes(s) ==
    IF s = <<>> THEN <<>>
    ELSE IF Head(s) = "-"
         THEN <<"-">> \o CollapseDashes(LStrip(s, {"-"}))
         ELSE <<Head(s)>> \o CollapseDashes(Tail(s))

\* "__" in safe
HasDoubleUnderscore(s) ==
    \E i \in 1..(Len(s) - 1) : s[i] = "_" /\ s[i + 1] = "_"

\* safe.replace("__", "_"): one left-to-right pass over non-overlapping matches
RECURSIVE ReplaceDoubleUnderscore(_)
ReplaceDoubleUnderscore(s) ==
    IF Len(s) < 2 THEN s
    ELSE IF s[1] = "_" /\ s[2] = "_"
         THEN <<"_">> \o ReplaceDoubleUnderscore(SubSeq(s, 3, Len(s)))
         ELSE <<s[1]>> \o ReplaceDoubleUnderscore(Tail(s))

\* while "__" in safe: safe = safe.replace("__", "_")
RECURSIVE CollapseUnderscores(_)
CollapseUnderscores(s) ==
    IF HasDoubleUnderscore(s)
    THEN CollapseUnderscores(ReplaceDoubleUnderscore(s))
    ELSE s

----------------------------------------------------------------------------
(* The sanitizers *)

\* sanitize_for_dir_name without the `or "item"` at its end
SanitizeDirNoFallback(name) ==
    Strip(CollapseDashes(SubDisallowed(name)), {"-", ".", "_"})

\* sanitize_for_dir_name without .strip("-._")
SanitizeDirNoStrip(name) ==
    LET sanitized2 == CollapseDashes(SubDisallowed(name))
    IN  IF sanitized2 # <<>> THEN sanitized2 ELSE Item

sanitize_for_dir_name(name) ==
    LET sanitized1 == SubDisallowed(name)
        sanitized2 == Strip(CollapseDashes(sanitized1), {"-", ".", "_"})
    IN  IF sanitized2 # <<>> THEN sanitized2 ELSE Item

\* the loop of sanitize_folder_name: keep or replace each character
SafeChars(name) ==
    [i \in 1..Len(name) |->
        IF IsAlnum(name[i]) \/ name[i] \in {"-", "_", ".", " "}
        THEN name[i] ELSE "_"]

\* sanitize_folder_name without the `while "__" in safe` loop
SanitizeFolderNoCollapse(name, fallback) ==
    IF name = <<>> THEN fallback
    ELSE LET safe2 == Strip(Strip(SafeChars(name), {" "}), {".", "_"})
         IN  IF safe2 # <<>> THEN safe2 ELSE fallback

\* sanitize_folder_name keeping every character (no replacement by "_")
SanitizeFolderKeepAll(name, fallback) ==
    IF name = <<>> THEN fallback
    ELSE LET safe == Strip(Strip(CollapseUnderscores(name), {" "}), {".", "_"})
         IN  IF safe # <<>> THEN safe ELSE fallback

sanitize_folder_name(name, fallback) ==
    IF name = <<>> THEN fallback
    ELSE LET safe1 == CollapseUnderscores(SafeChars(name))
             safe2 == Strip(Strip(safe1, {" "}), {".", "_"})
         IN  IF safe2 # <<>> THEN safe2 ELSE fallback

----------------------------------------------------------------------------
(* Path helpers (pathlib) and number formatting *)

UpperSeq ==
    <<"A","B","C","D","E","F","G","H","I","J","K","L","M",
      "N","O","P","Q","R","S","T","U","V","W","X","Y","Z">>

LowerSeq ==
    <<"a","b","c","d","e","f","g","h","i","j","k","l","m",
      "n","o","p","q","r","s","t","u","v","w","x","y","z">>

DigitSeq == <<"0","1","2","3","4","5","6","7","8","9">>

\* characters in code point order (used to compare names when sorting)
CharOrder ==
    <<" ", "-", ".", "/">> \o DigitSeq \o UpperSeq \o <<"_">> \o LowerSeq
        \o <<"U+00E9">>

CodePointRank(ch) == CHOOSE i \in 1..Len(CharOrder) : CharOrder[i] = ch

\* str.lower() of one character and of a string
LowerChar(ch) ==
    IF ch \in UpperLetters
    THEN LowerSeq[CHOOSE i \in 1..Len(UpperSeq) : UpperSeq[i] = ch]
    ELSE ch

Lower(s) == [i \in 1..Len(s) |-> LowerChar(s[i])]

\* index of the last "." of name, 0 when there is none (str.rfind, 1-based)
RFindDot(name) ==
    IF \E i \in 1..Len(name) : name[i] = "."
    THEN CHOOSE i \in 1..Len(name) :
            /\ name[i] = "."
            /\ \A j \in (i + 1)..Len(name) : name[j] # "."
    ELSE 0

\* Path.suffix: the last dot and what follows, unless the dot is first or last
Suffix(name) ==
    LET i == RFindDot(name)
    IN  IF 1 < i /\ i < Len(name) THEN SubSeq(name, i, Len(name)) ELSE <<>>

\* Path.stem: the name without its suffix
Stem(name) ==
    LET i == RFindDot(name)
    IN  IF 1 < i /\ i < Len(name) THEN SubSeq(name, 1, i - 1) ELSE name

\* f"{index}": decimal digits of a natural number
RECURSIVE Decimal(_)
Decimal(n) ==
    IF n < 10 THEN <<DigitSeq[n + 1]>>
    ELSE Decimal(n \div 10) \o <<DigitSeq[(n % 10) + 1]>>

\* lexicographic comparison of two strings by code point (str.__lt__)
RECURSIVE StrLess(_, _)
StrLess(s, t) ==
    IF t = <<>> THEN FALSE
    ELSE IF s = <<>> THEN TRUE
    ELSE IF Head(s) = Head(t) THEN StrLess(Tail(s), Tail(t))
    ELSE CodePointRank(Head(s)) < CodePointRank(Head(t))

\* all orderings of a finite set
Orderings(S) ==
    {p \in [1..Cardinality(S) -> S] :
        \A i, j \in 1..Cardinality(S) : i # j => p[i] # p[j]}

----------------------------------------------------------------------------
(* File names and file contents *)

ReadmeName == <<"R","E","A","D","M","E",".","m","d">>
MetadataName == <<"m","e","t","a","d","a","t","a",".","j","s","o","n">>

File_a_txt == <<"a",".","t","x","t">>
File_a_md == <<"a",".","m","d">>
Ext_txt == <<".","t","x","t">>
Ext_md == <<".","m","d">>

\* the names an input directory is drawn from: two stems that collide after
\* sanitizing, and a file named like the README the organizers write
SrcUniverse == {File_a_txt, File_a_md, ReadmeName}

Original(f) == [kind |-> "original", of |-> f, used_ai |-> FALSE, model |-> "null"]
ReadmeDoc(f, ai) ==
    [kind |-> "readme", of |-> f, used_ai |-> ai, model |-> "null"]
\* a metadata record that names the model whether or not AI text was used
MetadataDocModelAlways(f, ai) ==
    [kind |-> "metadata", of |-> f, used_ai |-> ai, model |-> "model_name"]

MetadataDoc(f, ai) ==
    [kind |-> "metadata", of |-> f, used_ai |-> ai,
     model |-> IF ai THEN "model_name" ELSE "null"]

EmptyDir == [kind |-> "dir", files |-> <<>>]
PlainFile == [kind |-> "file", files |-> <<>>]

----------------------------------------------------------------------------
(* The output directory *)

\* an exists() that never sees what is on disk
OccupiedNothing(exists, od) == {}

\* names for which (output_dir / name).exists() is true
Occupied(exists, od) == IF exists THEN DOMAIN od ELSE {}

\* Path.mkdir(parents=True, exist_ok=True) of output_dir / name
Mkdir(od, name) == IF name \in DOMAIN od THEN od ELSE (name :> EmptyDir) @@ od

\* Path.mkdir(parents=True, exist_ok=False): FileExistsError for any entry
MkdirRaisesIfPresent(od, name) == name \in DOMAIN od

\* Path.mkdir(parents=True, exist_ok=True) raises FileExistsError only when
\* the path is there and is not a directory
MkdirRaises(od, name) == name \in DOMAIN od /\ od[name].kind # "dir"

\* write (create or replace) the file fname of the folder output_dir / name
WriteFile(od, name, fname, content) ==
    [od EXCEPT ![name].files = (fname :> content) @@ od[name].files]

\* the while loop of create_unique_subfolder, from index on
RECURSIVE ProbeDash(_, _, _)
ProbeDash(occupied, desired_name, index) ==
    LET candidate == desired_name \o <<"-">> \o Decimal(index)
    IN  IF candidate \in occupied
        THEN ProbeDash(occupied, desired_name, index + 1)
        ELSE candidate

\* create_unique_subfolder probing "-2" once and then giving up
UniqueSubfolderOneProbe(occupied, desired_name) ==
    LET desired_ == sanitize_for_dir_name(desired_name)
    IN  IF desired_ \in occupied THEN desired_ \o <<"-">> \o Decimal(2) ELSE desired_

\* create_unique_subfolder: the name of the returned path (the caller of this
\* operator performs the ensure_directory of line 268)
create_unique_subfolder(occupied, desired_name) ==
    LET desired_ == sanitize_for_dir_name(desired_name)
    IN  IF desired_ \in occupied THEN ProbeDash(occupied, desired_, 2) ELSE desired_

\* the while loop of ensure_unique_path, from suffix on
RECURSIVE ProbeUnderscore(_, _, _)
ProbeUnderscore(occupied, desired_name, suffix) ==
    LET alt == desired_name \o <<"_">> \o Decimal(suffix)
    IN  IF alt \in occupied
        THEN ProbeUnderscore(occupied, desired_name, suffix + 1)
        ELSE alt

\* ensure_unique_path with the first alternative numbered 2
EnsureUniquePathFromTwo(occupied, desired_name) ==
    IF desired_name \notin occupied THEN desired_name
    ELSE ProbeUnderscore(occupied, desired_name, 2)

ensure_unique_path(occupied, desired_name) ==
    IF desired_name \notin occupied THEN desired_name
    ELSE ProbeUnderscore(occupied, desired_name, 1)

----------------------------------------------------------------------------
(* Command lines, extension filters, outcomes of the environment *)

NoExit == 0 - 1

\* an absent list (None) and an empty list behave alike wherever the code
\* tests them, so both are the empty sequence
NoList == <<>>

Range(seq) == {seq[i] : i \in 1..Len(seq)}

\* filter_files comparing the suffix as it is spelled (no .lower())
GfKeepsCaseSensitive(f, include_ext, exclude_ext) ==
    LET include_set == {Lower(e) : e \in Range(include_ext)}
        exclude_set == {Lower(e) : e \in Range(exclude_ext)}
        ext == Suffix(f)
    IN  /\ ~(include_ext # NoList /\ ext \notin include_set)
        /\ ext \notin exclude_set

\* the loop body of filter_files: does f stay in the result
GfKeeps(f, include_ext, exclude_ext) ==
    LET include_set == {Lower(e) : e \in Range(include_ext)}
        exclude_set == {Lower(e) : e \in Range(exclude_ext)}
        ext == Lower(Suffix(f))
    IN  /\ ~(include_ext # NoList /\ ext \notin include_set)
        /\ ext \notin exclude_set

filter_files(fileseq, include_ext, exclude_ext) ==
    SelectSeq(fileseq, LAMBDA f : GfKeeps(f, include_ext, exclude_ext))

\* normalize_exts of process_files: strip, lower, leading dot, drop empties
RECURSIVE normalize_exts(_)
normalize_exts(exts) ==
    IF exts = <<>> THEN <<>>
    ELSE LET e == Lower(Strip(Head(exts), {" "}))
             rest == normalize_exts(Tail(exts))
         IN  IF e = <<>> THEN rest
             ELSE IF Head(e) # "." THEN <<(<<".">> \o e)>> \o rest
             ELSE <<e>> \o rest

\* process_files testing the exclude-list only when there is no include-list
OwgKeepsExcludeUnlessIncluded(f, include_exts, exclude_exts) ==
    LET inc == normalize_exts(include_exts)
        exc == normalize_exts(exclude_exts)
        ext == Lower(Suffix(f))
    IN  IF inc # NoList THEN ext \in Range(inc)
        ELSE ~(exc # NoList /\ ext \in Range(exc))

\* the two filter tests at the head of the loop of process_files
OwgKeeps(f, include_exts, exclude_exts) ==
    LET inc == normalize_exts(include_exts)
        exc == normalize_exts(exclude_exts)
        ext == Lower(Suffix(f))
    IN  /\ ~(inc # NoList /\ ext \notin Range(inc))
        /\ ~(exc # NoList /\ ext \in Range(exc))

\* files.sort(key=lambda p: p.name.lower()): the orders a stable sort of an
\* arbitrarily ordered listing can produce
SortedByLowerName(S) ==
    {p \in Orderings(S) :
        \A i \in 1..(Cardinality(S) - 1) : ~StrLess(Lower(p[i + 1]), Lower(p[i]))}

\* what the text-generation call can do: the client library is missing, the
\* call raises, the response is empty, is white space only, or is text
AiResponses == {"nolib", "raise", "empty", "blank", "text"}

\* a main that never looks at the input directory
InputDirUnchecked(a) == TRUE

\* `not input_dir.exists() or not input_dir.is_dir()` does not hold
InputDirOk(a) == a.input_ok

IncludeChoices == {NoList, <<Ext_txt>>}
ExcludeChoices == {NoList, <<Ext_md>>}

GfArgs ==
    [tool : {"gf"}, input_ok : BOOLEAN, dry_run : BOOLEAN,
     copy_original : BOOLEAN, move_files : {FALSE}, overwrite : {FALSE},
     use_ai : BOOLEAN, has_key : BOOLEAN,
     include_ext : IncludeChoices, exclude_ext : ExcludeChoices]

OwgArgs ==
    [tool : {"owg"}, input_ok : BOOLEAN, dry_run : BOOLEAN,
     copy_original : {TRUE}, move_files : BOOLEAN, overwrite : BOOLEAN,
     use_ai : BOOLEAN, has_key : BOOLEAN,
     include_ext : IncludeChoices, exclude_ext : ExcludeChoices]

\* input directories: at most MaxFiles regular files
SrcChoices ==
    {[f \in S |-> Original(f)] :
        S \in {T \in SUBSET SrcUniverse : Cardinality(T) <= MaxFiles}}

\* output directories a run can start from: missing, empty, or holding a
\* folder named like the first candidate
OutChoices ==
    {[exists |-> FALSE, entries |-> <<>>],
     [exists |-> TRUE, entries |-> <<>>],
     [exists |-> TRUE, entries |-> (<<"a">> :> EmptyDir)]}

IdleRun ==
    /\ args = [tool |-> "none", input_ok |-> FALSE, dry_run |-> FALSE,
               copy_original |-> FALSE, move_files |-> FALSE,
               overwrite |-> FALSE, use_ai |-> FALSE, has_key |-> FALSE,
               include_ext |-> NoList, exclude_ext |-> NoList]
    /\ src = <<>>
    /\ pc = "idle"
    /\ files = <<>>
    /\ idx = 1
    /\ exitCode = NoExit
    /\ log = <<>>
    /\ warnings = 0
    /\ processed = 0
    /\ ai_generated = 0

NotSanitized ==
    [done |-> FALSE, dir |-> <<>>, folder |-> <<>>, dir2 |-> <<>>, folder2 |-> <<>>,
     subfolder |-> <<>>, dest_dir |-> <<>>]

IdleSan == raw = <<>> /\ sanitized = NotSanitized

IdleAlloc == desired = <<>> /\ returned = <<>>

IdleOther ==
    /\ callers = <<>>
    /\ bot = [stage |-> "idle"]
    /\ tree = <<>>
    /\ joiner = [stage |-> "idle"]
    /\ chat = [stage |-> "idle"]
    /\ selected = [done |-> FALSE, listed |-> <<>>, kept |-> <<>>]

Init ==
    /\ args \in GfArgs \cup OwgArgs
    /\ src \in (IF args.input_ok THEN SrcChoices ELSE {<<>>})
    /\ \E o \in OutChoices :
          /\ outExists = o.exists
          /\ outdir = o.entries
          /\ before = [outExists |-> o.exists, outdir |-> o.entries, src |-> src]
    /\ pc = "start"
    /\ files = <<>>
    /\ idx = 1
    /\ exitCode = NoExit
    /\ log = <<>>
    /\ warnings = 0
    /\ processed = 0
    /\ ai_generated = 0
    /\ IdleSan
    /\ IdleAlloc
    /\ IdleOther

----------------------------------------------------------------------------
(* generate_folders.py *)

\* status main returns for a missing input directory
GfBadInputStatus == 2

\* `if not dry_run: ensure_directory(output_dir)`
GfEnsureOutputDir(dry_run, exists) == exists \/ ~dry_run

\* ensure_directory(candidate) at the end of create_unique_subfolder: neither
\* function has a dry_run parameter, the folder is made in every run
ensure_directory(od, subfolder) == Mkdir(od, subfolder)

\* what shutil.copy2 can do for one item ("none": no copy asked for,
\* "dry": only announced)
GfCopyOutcomes(a) ==
    IF ~a.copy_original THEN {"none"}
    ELSE IF a.dry_run THEN {"dry"}
    ELSE {"ok", "fail"}

\* whether process_file calls generate_ai_markdown
GfCallsAi(a) == a.use_ai /\ a.has_key

\* an `if ai_markdown is not None:` in its place
GfAiMarkdownNotNone(resp) == resp \in {"empty", "blank", "text"}

\* `if ai_markdown:` for the value generate_ai_markdown returned
GfAiMarkdownTruthy(resp) == resp \in {"blank", "text"}

\* the notices process_file prints in a dry run
GfNotices(a) ==
    IF a.dry_run
    THEN (IF a.copy_original THEN {"would copy"} ELSE {})
            \cup {"would write README", "would write metadata"}
    ELSE {}

\* main, up to the loop over the files
GfMain ==
    /\ pc = "start"
    /\ args.tool = "gf"
    /\ IF ~InputDirOk(args)
       THEN /\ pc' = "exit"
            /\ exitCode' = GfBadInputStatus
            /\ UNCHANGED <<outExists, files>>
       ELSE /\ outExists' = GfEnsureOutputDir(args.dry_run, outExists)
            /\ \E order \in Orderings(DOMAIN src) :
                  files' = filter_files(order, args.include_ext, args.exclude_ext)
            /\ IF files' = <<>>
               THEN pc' = "done" /\ exitCode' = 0
               ELSE pc' = "loop" /\ exitCode' = exitCode
    /\ UNCHANGED <<args, src, outdir, idx, log, warnings, processed,
                   ai_generated, before, callers, bot, tree, joiner, chat, selected, raw, sanitized, desired, returned>>

\* one call of process_file from the loop of main
GfProcessFile ==
    /\ pc = "loop"
    /\ args.tool = "gf"
    /\ idx <= Len(files)
    /\ LET file_path == files[idx]
           subfolder == create_unique_subfolder(Occupied(outExists, outdir),
                                                Stem(file_path))
           od1 == ensure_directory(outdir, subfolder)
           made == subfolder \in DOMAIN od1
       IN  \E io \in GfCopyOutcomes(args) :
             IF io = "fail"
             THEN \* shutil.copy2 raises; nothing catches it up to main
                  /\ outExists' = (outExists \/ made)
                  /\ outdir' = od1
                  /\ pc' = "crashed"
                  /\ exitCode' = 1
                  /\ log' = Append(log,
                        [file |-> file_path, folder |-> subfolder, io |-> io,
                         seen |-> Occupied(outExists, outdir),
                         ai |-> "none", readme |-> "none", completed |-> FALSE,
                         notices |-> {}])
                  /\ UNCHANGED <<idx, warnings>>
             ELSE \E resp \in (IF GfCallsAi(args) THEN AiResponses ELSE {"none"}) :
                  LET used == resp # "none" /\ GfAiMarkdownTruthy(resp)
                      od2 == IF io = "ok"
                             THEN WriteFile(od1, subfolder, file_path, src[file_path])
                             ELSE od1
                      od3 == IF args.dry_run THEN od2
                             ELSE WriteFile(od2, subfolder, ReadmeName,
                                            ReadmeDoc(file_path, used))
                      od4 == IF args.dry_run THEN od3
                             ELSE WriteFile(od3, subfolder, MetadataName,
                                            MetadataDoc(file_path, used))
                  IN  /\ outExists' = (outExists \/ made)
                      /\ outdir' = od4
                      /\ warnings' = IF args.use_ai /\ ~args.has_key
                                     THEN warnings + 1 ELSE warnings
                      /\ log' = Append(log,
                            [file |-> file_path, folder |-> subfolder, io |-> io,
                         seen |-> Occupied(outExists, outdir),
                             ai |-> resp,
                             readme |-> IF used THEN "ai" ELSE "template",
                             completed |-> TRUE, notices |-> GfNotices(args)])
                      /\ idx' = idx + 1
                      /\ UNCHANGED <<pc, exitCode>>
    /\ UNCHANGED <<args, src, files, processed, ai_generated, before, callers, bot, tree, joiner, chat, selected, raw,
                   sanitized, desired, returned>>

\* the loop is over: main prints "Done." and returns 0
GfDone ==
    /\ pc = "loop"
    /\ args.tool = "gf"
    /\ idx > Len(files)
    /\ pc' = "done"
    /\ exitCode' = 0
    /\ UNCHANGED <<args, src, outExists, outdir, files, idx, log, warnings,
                   processed, ai_generated, before, callers, bot, tree, joiner, chat, selected, raw, sanitized, desired,
                   returned>>

----------------------------------------------------------------------------
(* organize_with_gemini.py *)

\* raise SystemExit("<message>"): the interpreter exits with status 1
OwgBadSourceStatus == 1

\* a process_files that makes the folder in a dry run too
OwgPrepareFolderAlways(dry_run, od, dest_dir) == Mkdir(od, dest_dir)

\* `if not dry_run: dest_dir.mkdir(parents=True, exist_ok=True)`
OwgPrepareFolder(dry_run, od, dest_dir) ==
    IF ~dry_run THEN Mkdir(od, dest_dir) ELSE od

\* what shutil.move / shutil.copy2 can do for one item
OwgTransferOutcomes(a) == IF a.dry_run THEN {"dry"} ELSE {"ok", "fail"}

\* `do_ai and api_key` after the key was resolved
OwgCallsAi(a) == a.use_ai /\ a.has_key

\* `if content.strip():` for what generate_readme_with_gemini returned
OwgContentNonBlank(resp) == resp = "text"

\* readme_path.exists()
ReadmeExists(exists, od, dest_dir) ==
    /\ dest_dir \in Occupied(exists, od)
    /\ ReadmeName \in DOMAIN od[dest_dir].files

\* parse_args: the source directory is checked, SystemExit otherwise
OwgParseArgs ==
    /\ pc = "start"
    /\ args.tool = "owg"
    /\ IF ~InputDirOk(args)
       THEN pc' = "exit" /\ exitCode' = OwgBadSourceStatus
       ELSE pc' = "parsed" /\ exitCode' = exitCode
    /\ UNCHANGED <<args, src, outExists, outdir, files, idx, log, warnings,
                   processed, ai_generated, before, callers, bot, tree, joiner, chat, selected, raw, sanitized, desired,
                   returned>>

\* process_files, up to its loop: list and sort the files, resolve the key
OwgBegin ==
    /\ pc = "parsed"
    /\ args.tool = "owg"
    /\ files' \in SortedByLowerName(DOMAIN src)
    /\ warnings' = IF args.use_ai /\ ~args.has_key THEN warnings + 1 ELSE warnings
    /\ pc' = "loop"
    /\ UNCHANGED <<args, src, outExists, outdir, idx, exitCode, log, processed,
                   ai_generated, before, callers, bot, tree, joiner, chat, selected, raw, sanitized, desired, returned>>

\* one iteration of the loop of process_files
OwgProcessItem ==
    /\ pc = "loop"
    /\ args.tool = "owg"
    /\ idx <= Len(files)
    /\ LET file_path == files[idx]
           name_ == IF Stem(file_path) # <<>> THEN Stem(file_path) ELSE file_path
           folder_name == sanitize_folder_name(name_, Item)
           occupied == Occupied(outExists, outdir)
           dest_dir == ensure_unique_path(occupied, folder_name)
           od1 == OwgPrepareFolder(args.dry_run, outdir, dest_dir)
           ex1 == outExists \/ dest_dir \in DOMAIN od1
           notices0 == {"Preparing folder", IF args.move_files THEN "moving" ELSE "copying"}
       IN  IF \/ ~OwgKeeps(file_path, args.include_ext, args.exclude_ext)
              \/ (dest_dir \in occupied /\ ~args.overwrite)
           THEN \* continue
                /\ idx' = idx + 1
                /\ UNCHANGED <<src, outExists, outdir, pc, exitCode, log,
                               processed, ai_generated>>
           ELSE \E io \in OwgTransferOutcomes(args) :
             IF io = "fail"
             THEN \* shutil.move / shutil.copy2 raises; nothing catches it
                  /\ outExists' = ex1
                  /\ outdir' = od1
                  /\ pc' = "crashed"
                  /\ exitCode' = 1
                  /\ log' = Append(log,
                        [file |-> file_path, folder |-> dest_dir, seen |-> occupied, io |-> io,
                         ai |-> "none", readme |-> "none", completed |-> FALSE,
                         notices |-> notices0])
                  /\ UNCHANGED <<src, idx, processed, ai_generated>>
             ELSE LET od2 == IF io = "ok"
                             THEN WriteFile(od1, dest_dir, file_path, src[file_path])
                             ELSE od1
                      src2 == IF io = "ok" /\ args.move_files
                              THEN [g \in (DOMAIN src) \ {file_path} |-> src[g]]
                              ELSE src
                  IN  IF ReadmeExists(ex1, od2, dest_dir) /\ ~args.overwrite
                      THEN \* "README exists, skipping"
                           /\ outExists' = ex1
                           /\ outdir' = od2
                           /\ src' = src2
                           /\ log' = Append(log,
                                 [file |-> file_path, folder |-> dest_dir, seen |-> occupied,
                                  io |-> io, ai |-> "none", readme |-> "skipped",
                                  completed |-> TRUE, notices |-> notices0])
                           /\ processed' = processed + 1
                           /\ idx' = idx + 1
                           /\ UNCHANGED <<pc, exitCode, ai_generated>>
                      ELSE \E resp \in (IF OwgCallsAi(args) THEN AiResponses
                                        ELSE {"none"}) :
                           LET used == resp # "none" /\ OwgContentNonBlank(resp)
                               od3 == IF args.dry_run THEN od2
                                      ELSE WriteFile(od2, dest_dir, ReadmeName,
                                                     ReadmeDoc(file_path, used))
                           IN  /\ outExists' = ex1
                               /\ outdir' = od3
                               /\ src' = src2
                               /\ log' = Append(log,
                                     [file |-> file_path, folder |-> dest_dir, seen |-> occupied,
                                      io |-> io, ai |-> resp,
                                      readme |-> IF used THEN "ai" ELSE "template",
                                      completed |-> TRUE,
                                      notices |-> notices0 \cup {"Writing README"}])
                               /\ ai_generated' = IF used THEN ai_generated + 1
                                                  ELSE ai_generated
                               /\ processed' = processed + 1
                               /\ idx' = idx + 1
                               /\ UNCHANGED <<pc, exitCode>>
    /\ UNCHANGED <<args, files, warnings, before, callers, bot, tree, joiner, chat, selected, raw, sanitized, desired,
                   returned>>

\* process_files returns; main logs the two counters and returns 0
OwgFinish ==
    /\ pc = "loop"
    /\ args.tool = "owg"
    /\ idx > Len(files)
    /\ pc' = "done"
    /\ exitCode' = 0
    /\ UNCHANGED <<args, src, outExists, outdir, files, idx, log, warnings,
                   processed, ai_generated, before, callers, bot, tree, joiner, chat, selected, raw, sanitized, desired,
                   returned>>

----------------------------------------------------------------------------
(* The runs of the two organizers *)

Next ==
    \/ GfMain
    \/ GfProcessFile
    \/ GfDone
    \/ OwgParseArgs
    \/ OwgBegin
    \/ OwgProcessItem
    \/ OwgFinish

Spec == Init /\ [][Next]_vars

----------------------------------------------------------------------------
(* The sanitizers applied to every short raw name *)

\* one character of each class the sanitizers tell apart
SanChars == {"a", "Z", "7", ".", "_", "-", " ", "/", "\\", "U+00E9"}

\* a longer name made of dots only
FourDots == <<".", ".", ".", ".">>

\* a longer name with two replaced characters in its middle
TwoSlashes == <<"a", "/", "/", "b">>

RawNames ==
    UNION {[1..k -> SanChars] : k \in 0..MaxLen} \cup {FourDots, TwoSlashes}

IdleFs ==
    /\ outExists = FALSE
    /\ outdir = <<>>
    /\ before = [outExists |-> FALSE, outdir |-> <<>>, src |-> <<>>]

InitSan ==
    /\ raw \in RawNames
    /\ sanitized = NotSanitized
    /\ IdleRun
    /\ IdleFs
    /\ IdleAlloc
    /\ IdleOther

\* both sanitizers are called on the raw name, and again on their results
ApplySanitizers ==
    /\ ~sanitized.done
    /\ sanitized' = [done |-> TRUE,
                     dir |-> sanitize_for_dir_name(raw),
                     folder |-> sanitize_folder_name(raw, Item),
                     dir2 |-> sanitize_for_dir_name(sanitize_for_dir_name(raw)),
                     folder2 |-> sanitize_folder_name(
                                     sanitize_folder_name(raw, Item), Item),
                     subfolder |-> create_unique_subfolder(
                                     {sanitize_for_dir_name(raw)}, raw),
                     dest_dir |-> ensure_unique_path(
                                     {sanitize_folder_name(raw, Item)},
                                     sanitize_folder_name(raw, Item))]
    /\ UNCHANGED <<callers, bot, tree, joiner, chat, selected, raw, desired, returned>>
    /\ UNCHANGED runVars

NextSan == ApplySanitizers

SpecSan == InitSan /\ [][NextSan]_vars

----------------------------------------------------------------------------
(* Successive allocations of one desired name against one root *)

DesiredChoices ==
    {<<"p","h","o","t","o">>, <<".","a","/">>, <<"n","o","t","e","s">>}

\* the first candidates of a desired name: each may be missing, a directory
\* or a regular file when the calls start
FirstCandidates(d) ==
    LET n == sanitize_for_dir_name(d)
        m == sanitize_folder_name(d, Item)
    IN  {n, n \o <<"-">> \o Decimal(2), n \o <<"-">> \o Decimal(3),
         m, m \o <<"_">> \o Decimal(1), m \o <<"_">> \o Decimal(2)}

InitAlloc ==
    /\ desired \in DesiredChoices
    /\ returned = <<>>
    /\ \E S \in SUBSET FirstCandidates(desired) :
         \E kinds \in [S -> {EmptyDir, PlainFile}] :
           \E ex \in (IF S = {} THEN BOOLEAN ELSE {TRUE}) :
              /\ outExists = ex
              /\ outdir = kinds
              /\ before = [outExists |-> ex, outdir |-> kinds, src |-> <<>>]
    /\ IdleRun
    /\ IdleSan
    /\ IdleOther

\* one call create_unique_subfolder(root, desired)
CallCreateUniqueSubfolder ==
    /\ Len(returned) < MaxCalls
    /\ LET occupied == Occupied(outExists, outdir)
           candidate == create_unique_subfolder(occupied, desired)
       IN  /\ outdir' = ensure_directory(outdir, candidate)
           /\ outExists' = TRUE
           /\ returned' = Append(returned,
                             [fn |-> "create_unique_subfolder",
                              occupied |-> occupied,
                              path |-> candidate,
                              existed |-> candidate \in occupied])
    /\ UNCHANGED <<args, src, pc, files, idx, exitCode, log, warnings,
                   processed, ai_generated, before, callers, bot, tree, joiner, chat, selected, raw, sanitized, desired>>

\* one call ensure_unique_path(root, sanitize_folder_name(desired)); the
\* function creates nothing
CallEnsureUniquePath ==
    /\ Len(returned) < MaxCalls
    /\ LET occupied == Occupied(outExists, outdir)
           dest_dir == ensure_unique_path(occupied,
                                          sanitize_folder_name(desired, Item))
       IN  returned' = Append(returned,
                          [fn |-> "ensure_unique_path",
                           occupied |-> occupied,
                           path |-> dest_dir,
                           existed |-> dest_dir \in occupied])
    /\ UNCHANGED <<args, src, outExists, outdir, pc, files, idx, exitCode, log,
                   warnings, processed, ai_generated, before, callers, bot,
                   tree, joiner, chat, selected, raw, sanitized, desired>>

NextAlloc == CallCreateUniqueSubfolder \/ CallEnsureUniquePath

SpecAlloc == InitAlloc /\ [][NextAlloc]_vars

----------------------------------------------------------------------------
(* Callers allocating one desired name against one root at the same time,
   with no lock: every exists() and every mkdir() is a step of its own *)

Callers == 1..NumCallers

AllocFns == {"create_unique_subfolder", "ensure_unique_path"}

\* the path examined by the k-th exists() of a call
NthCandidate(fn, d, k) ==
    IF fn = "create_unique_subfolder"
    THEN LET n == sanitize_for_dir_name(d)
         IN  IF k = 1 THEN n ELSE n \o <<"-">> \o Decimal(k)
    ELSE LET m == sanitize_folder_name(d, Item)
         IN  IF k = 1 THEN m ELSE m \o <<"_">> \o Decimal(k - 1)

InitConc ==
    /\ desired \in DesiredChoices
    /\ returned = <<>>
    /\ \E fn \in AllocFns, ow \in BOOLEAN :
          callers = [c \in Callers |->
                       [fn |-> fn, overwrite |-> ow, pc |-> "check", checks |-> 0,
                        path |-> <<>>, error |-> FALSE, began_after |-> {}]]
    /\ \E S \in SUBSET FirstCandidates(desired) :
         \E kinds \in [S -> {EmptyDir, PlainFile}] :
           \E ex \in (IF S = {} THEN BOOLEAN ELSE {TRUE}) :
              /\ outExists = ex
              /\ outdir = kinds
              /\ before = [outExists |-> ex, outdir |-> kinds, src |-> <<>>]
    /\ IdleRun
    /\ IdleSan
    /\ bot = [stage |-> "idle"]
    /\ tree = <<>>
    /\ joiner = [stage |-> "idle"]
    /\ chat = [stage |-> "idle"]
    /\ selected = [done |-> FALSE, listed |-> <<>>, kept |-> <<>>]

\* one candidate.exists() of caller c: the loop goes on while it is true
CallerChecks(c) ==
    /\ callers[c].pc = "check"
    /\ LET me == callers[c]
           candidate == NthCandidate(me.fn, desired, me.checks + 1)
           began == IF me.checks = 0
                    THEN {d \in Callers : callers[d].pc \in {"done", "skipped"}}
                    ELSE me.began_after
       IN  callers' =
              [callers EXCEPT ![c] =
                 IF candidate \in Occupied(outExists, outdir)
                 THEN [me EXCEPT !.checks = @ + 1, !.began_after = began]
                 ELSE [me EXCEPT !.checks = @ + 1, !.began_after = began,
                                 !.path = candidate,
                                 !.pc = IF me.fn = "ensure_unique_path"
                                        THEN "recheck" ELSE "mkdir"]]
    /\ UNCHANGED <<args, src, outExists, outdir, pc, files, idx, exitCode, log,
                   warnings, processed, ai_generated, before, bot, tree, joiner, chat,
                   selected, raw, sanitized, desired, returned>>

\* `if dest_dir.exists() and not overwrite: continue` of process_files
CallerRechecks(c) ==
    /\ callers[c].pc = "recheck"
    /\ callers' =
          [callers EXCEPT ![c].pc =
             IF callers[c].path \in Occupied(outExists, outdir)
                /\ ~callers[c].overwrite
             THEN "skipped" ELSE "mkdir"]
    /\ UNCHANGED <<args, src, outExists, outdir, pc, files, idx, exitCode, log,
                   warnings, processed, ai_generated, before, bot, tree, joiner, chat,
                   selected, raw, sanitized, desired, returned>>

\* the mkdir(parents=True, exist_ok=True) of caller c
CallerCreates(c) ==
    /\ callers[c].pc = "mkdir"
    /\ IF MkdirRaises(outdir, callers[c].path)
       THEN /\ callers' = [callers EXCEPT ![c].pc = "failed", ![c].error = TRUE]
            /\ UNCHANGED <<outExists, outdir>>
       ELSE /\ callers' = [callers EXCEPT ![c].pc = "done"]
            /\ outdir' = Mkdir(outdir, callers[c].path)
            /\ outExists' = TRUE
    /\ UNCHANGED <<args, src, pc, files, idx, exitCode, log, warnings,
                   processed, ai_generated, before, bot, tree, joiner, chat, selected, raw,
                   sanitized, desired, returned>>

NextConc ==
    \E c \in Callers : CallerChecks(c) \/ CallerRechecks(c) \/ CallerCreates(c)

SpecConc == InitConc /\ [][NextConc]_vars

----------------------------------------------------------------------------
(* The selector: listing the input directory and filtering by extension *)

File_b_csv == <<"b",".","c","s","v">>
File_c_TXT == <<"c",".","T","X","T">>
File_notes == <<"n","o","t","e","s">>
File_e_txt == <<"e",".","t","x","t">>
File_g_log == <<"g",".","l","o","g">>
Dir_d_txt == <<"d",".","t","x","t">>
Dir_s == <<"s">>

Ext_TXT == <<".","T","X","T">>
Ext_log == <<".","l","o","g">>
Ext_txt_nodot == <<"t","x","t">>
Ext_csv_nodot == <<"c","s","v">>

\* the entries an input directory is drawn from, as paths relative to it:
\* files with and without suffix, a directory named like a text file, a
\* nested directory
EntryUniverse ==
    (<<File_a_txt>> :> "file") @@ (<<File_b_csv>> :> "file")
    @@ (<<File_c_TXT>> :> "file") @@ (<<File_notes>> :> "file")
    @@ (<<Dir_d_txt>> :> "dir") @@ (<<Dir_d_txt, File_e_txt>> :> "file")
    @@ (<<Dir_d_txt, Dir_s>> :> "dir")
    @@ (<<Dir_d_txt, Dir_s, File_g_log>> :> "file")

Parent(path) == SubSeq(path, 1, Len(path) - 1)

\* input directories: at most MaxEntries entries, each in a directory of the tree
TreeChoices ==
    {[q \in P |-> EntryUniverse[q]] :
        P \in {Q \in SUBSET DOMAIN EntryUniverse :
                 /\ Cardinality(Q) <= MaxEntries
                 /\ \A q \in Q : Len(q) > 1 => Parent(q) \in Q}}

SelIncludeChoices == {NoList, <<Ext_txt>>, <<Ext_TXT>>, <<Ext_txt_nodot>>}
SelExcludeChoices == {NoList, <<Ext_log>>, <<Ext_TXT>>, <<Ext_csv_nodot>>}

SelArgs ==
    [tool : {"gf"}, recursive : BOOLEAN,
     include_ext : SelIncludeChoices, exclude_ext : SelExcludeChoices]
    \cup
    [tool : {"owg"}, recursive : {FALSE},
     include_ext : SelIncludeChoices, exclude_ext : SelExcludeChoices]

\* Path.name: the last component
PathName(path) == path[Len(path)]

\* iter_files yielding every entry, directories included (no is_file test)
IterEntriesUnfiltered(t, recursive) ==
    IF recursive THEN DOMAIN t ELSE {q \in DOMAIN t : Len(q) = 1}

\* iter_files: input_dir.rglob("*") or input_dir.iterdir(), regular files only
iter_files(t, recursive) ==
    IF recursive
    THEN {q \in DOMAIN t : t[q] = "file"}
    ELSE {q \in DOMAIN t : Len(q) = 1 /\ t[q] = "file"}

\* [p for p in source_dir.iterdir() if p.is_file()]
OwgListFiles(t) == {q \in DOMAIN t : Len(q) = 1 /\ t[q] = "file"}

InitSel ==
    /\ tree \in TreeChoices
    /\ joiner = [stage |-> "idle"]
    /\ chat = [stage |-> "idle"]
    /\ \E a \in SelArgs : args = a
    /\ selected = [done |-> FALSE, listed |-> <<>>, kept |-> <<>>]
    /\ callers = <<>>
    /\ bot = [stage |-> "idle"]
    /\ src = <<>>
    /\ pc = "idle"
    /\ files = <<>>
    /\ idx = 1
    /\ exitCode = NoExit
    /\ log = <<>>
    /\ warnings = 0
    /\ processed = 0
    /\ ai_generated = 0
    /\ IdleFs
    /\ IdleSan
    /\ IdleAlloc

\* generate_folders: filter_files(iter_files(input_dir, recursive), ...)
SelectGf ==
    /\ ~selected.done
    /\ args.tool = "gf"
    /\ \E order \in Orderings(iter_files(tree, args.recursive)) :
          selected' =
             [done |-> TRUE, listed |-> order,
              kept |-> SelectSeq(order,
                          LAMBDA q : GfKeeps(PathName(q), args.include_ext,
                                             args.exclude_ext))]
    /\ UNCHANGED <<args, src, outExists, outdir, pc, files, idx, exitCode, log,
                   warnings, processed, ai_generated, before, callers, bot,
                   tree, joiner, chat, raw, sanitized, desired, returned>>

\* organize_with_gemini: the sorted listing and the filter tests of the loop
SelectOwg ==
    /\ ~selected.done
    /\ args.tool = "owg"
    /\ \E order \in Orderings(OwgListFiles(tree)) :
          /\ \A i \in 1..(Len(order) - 1) :
                ~StrLess(Lower(PathName(order[i + 1])), Lower(PathName(order[i])))
          /\ selected' =
                [done |-> TRUE, listed |-> order,
                 kept |-> SelectSeq(order,
                             LAMBDA q : OwgKeeps(PathName(q), args.include_ext,
                                                 args.exclude_ext))]
    /\ UNCHANGED <<args, src, outExists, outdir, pc, files, idx, exitCode, log,
                   warnings, processed, ai_generated, before, callers, bot,
                   tree, joiner, chat, raw, sanitized, desired, returned>>

NextSel == SelectGf \/ SelectOwg

SpecSel == InitSel /\ [][NextSel]_vars

----------------------------------------------------------------------------
(* groups_file.send_file: one upload of one file to one chat *)

\* max_size: "50MB in bytes"
MaxSize == 50 * 1024 * 1024

\* what os.path.getsize can report: sizes on both sides of the ceiling
FileSizes == {0, MaxSize - 1, MaxSize, MaxSize + 1, 2 * MaxSize}

\* what os.path.getsize and open can do: succeed or raise
StatOutcomes == {"ok", "FileNotFoundError", "PermissionError"}

\* str(e) of the TelegramError that send_document can raise
TelegramErrors ==
    {"Chat not found", "Request Entity Too Large", "Timed out", "Forbidden"}

\* what awaiting wait_for(bot.send_document(...), timeout=300) can do
SendOutcomes ==
    {"ok", "asyncio.TimeoutError", "ConnectionResetError"} \cup TelegramErrors

\* the size test with the ceiling taken away
SizeAllowedAlways(file_size) == TRUE

\* `if file_size > max_size: ... return False`
SizeAllowed(file_size) == ~(file_size > MaxSize)

\* the except clauses of send_file, in their order: the message printed
\* before `return False`
ExceptClause(exc) ==
    IF exc = "asyncio.TimeoutError" THEN "Upload timed out"
    ELSE IF exc \in TelegramErrors
    THEN (IF exc = "Chat not found" THEN "Chat not found"
          ELSE IF exc = "Request Entity Too Large" THEN "File too large for Telegram"
          ELSE IF exc = "Timed out" THEN "Upload timed out"
          ELSE "Telegram error")
    ELSE IF exc = "FileNotFoundError" THEN "File not found"
    ELSE "Unexpected error"

InitSend ==
    /\ \E size \in FileSizes, st \in StatOutcomes, op \in StatOutcomes,
          sd \in SendOutcomes :
          bot = [stage |-> "ready", size |-> size, getsize |-> st, open |-> op,
                 send |-> sd, send_calls |-> 0, completed |-> FALSE,
                 result |-> "none", printed |-> <<>>]
    /\ callers = <<>>
    /\ tree = <<>>
    /\ joiner = [stage |-> "idle"]
    /\ chat = [stage |-> "idle"]
    /\ selected = [done |-> FALSE, listed |-> <<>>, kept |-> <<>>]
    /\ IdleRun
    /\ IdleFs
    /\ IdleSan
    /\ IdleAlloc

\* send_file up to its await: getsize, the size test, open, and the call of
\* bot.send_document
SendFileCall ==
    /\ bot.stage = "ready"
    /\ bot' =
          IF bot.getsize # "ok"
          THEN [bot EXCEPT !.stage = "returned", !.result = "False",
                           !.printed = <<ExceptClause(bot.getsize)>>]
          ELSE IF ~SizeAllowed(bot.size)
          THEN [bot EXCEPT !.stage = "returned", !.result = "False",
                           !.printed = <<"File too large">>]
          ELSE IF bot.open # "ok"
          THEN [bot EXCEPT !.stage = "returned", !.result = "False",
                           !.printed = <<"Sending file", ExceptClause(bot.open)>>]
          ELSE [bot EXCEPT !.stage = "awaiting", !.send_calls = @ + 1,
                           !.printed = <<"Sending file">>]
    /\ UNCHANGED <<args, src, outExists, outdir, pc, files, idx, exitCode, log,
                   warnings, processed, ai_generated, before, callers, tree, joiner, chat,
                   selected, raw, sanitized, desired, returned>>

\* send_file from its await on: send_document completes, or wait_for or
\* send_document raises
SendFileResume ==
    /\ bot.stage = "awaiting"
    /\ bot' =
          IF bot.send = "ok"
          THEN [bot EXCEPT !.stage = "returned", !.completed = TRUE,
                           !.result = "True",
                           !.printed = Append(@, "Successfully sent")]
          ELSE [bot EXCEPT !.stage = "returned", !.result = "False",
                           !.printed = Append(@, ExceptClause(bot.send))]
    /\ UNCHANGED <<args, src, outExists, outdir, pc, files, idx, exitCode, log,
                   warnings, processed, ai_generated, before, callers, tree, joiner, chat,
                   selected, raw, sanitized, desired, returned>>

NextSend == SendFileCall \/ SendFileResume

SpecSend == InitSend /\ [][NextSend]_vars

----------------------------------------------------------------------------
(* join_group.TelegramGroupJoiner.process_group_list *)

Group_a == <<"@", "a">>
Group_b == <<"@", "b">>
\* an invite link of the chat that @a names
Invite_a == <<"+", "a">>

\* the lines a list file is made of: identifiers, an identifier with white
\* space around it, an empty line, a blank line, a comment
ListLines ==
    {Group_a, Group_b, Invite_a, <<" ">> \o Group_a \o <<" ">>, <<>>, <<" ">>,
     <<"#">> \o Group_a}

ListFiles == UNION {[1..k -> ListLines] : k \in 0..MaxLines}

\* what opening and reading the list file can do
ReadOutcomes == {"ok", "FileNotFoundError", "UnicodeDecodeError"}

\* chat.id of the chat an identifier names
ChatIdOf(group_identifier) ==
    IF group_identifier = Group_b THEN "chat_b" ELSE "chat_a"

\* read_group_list keeping the comment lines
ReadGroupListWithComments(outcome, lines) ==
    IF outcome # "ok" THEN <<>>
    ELSE LET stripped == [k \in 1..Len(lines) |-> Strip(lines[k], {" "})]
         IN  SelectSeq(stripped, LAMBDA line : line # <<>>)

\* read_group_list: the stripped lines that are neither empty nor comments;
\* [] when the file cannot be read
read_group_list(outcome, lines) ==
    IF outcome # "ok" THEN <<>>
    ELSE LET stripped == [k \in 1..Len(lines) |-> Strip(lines[k], {" "})]
         IN  SelectSeq(stripped, LAMBDA line : line # <<>> /\ Head(line) # "#")

\* what bot.get_chat can do in join_group: raise TelegramError, raise
\* something else, or return a chat of some type
GetChatOutcomes ==
    {"TelegramError", "RuntimeError", "private", "group", "supergroup", "channel"}

\* what the calls under get_group_members and get_recent_files can do: all
\* succeed, one raises TelegramError (caught there: an empty list is
\* returned), one raises something else
FetchOutcomes == {"ok", "TelegramError", "RuntimeError"}

GroupTypes == {"group", "supergroup", "channel"}

\* join_group: "raise" for an exception that is no TelegramError, "none" for
\* a TelegramError or a chat that is no group or channel, else the group_info
join_group(group_identifier, got) ==
    IF got = "RuntimeError" THEN [status |-> "raise"]
    ELSE IF got = "TelegramError" \/ got \notin GroupTypes THEN [status |-> "none"]
    ELSE [status |-> "info", id |-> ChatIdOf(group_identifier), type |-> got,
          identifier |-> group_identifier]

\* crawl_group_data: "raise", "none", or the group_data
crawl_group_data(group_identifier, got, fetch) ==
    LET group_info == join_group(group_identifier, got)
    IN  IF group_info.status # "info" THEN group_info
        ELSE IF fetch = "RuntimeError" THEN [status |-> "raise"]
        ELSE [status |-> "data", group_info |-> group_info,
              lists |-> IF fetch = "ok" THEN "listed" ELSE "empty"]

\* a loop body without its `except Exception`
LoopBodyCatchesNothing(outcome) == FALSE

\* `except Exception as e:` of the loop body of process_group_list
LoopBodyCatches(outcome) == outcome.status = "raise"

InitJoin ==
    /\ \E lines \in ListFiles, rd \in ReadOutcomes :
          joiner = [stage |-> "ready", lines |-> lines, read |-> rd,
                    groups |-> <<>>, i |-> 1, attempts |-> <<>>,
                    joined_groups |-> <<>>]
    /\ callers = <<>>
    /\ bot = [stage |-> "idle"]
    /\ tree = <<>>
    /\ chat = [stage |-> "idle"]
    /\ selected = [done |-> FALSE, listed |-> <<>>, kept |-> <<>>]
    /\ IdleRun
    /\ IdleFs
    /\ IdleSan
    /\ IdleAlloc

\* process_group_list up to its loop
JoinReadList ==
    /\ joiner.stage = "ready"
    /\ LET groups == read_group_list(joiner.read, joiner.lines)
       IN  joiner' = [joiner EXCEPT !.groups = groups,
                                    !.stage = IF groups = <<>> THEN "returned"
                                              ELSE "loop"]
    /\ UNCHANGED <<args, src, outExists, outdir, pc, files, idx, exitCode, log,
                   warnings, processed, ai_generated, before, callers, bot,
                   tree, chat, selected, raw, sanitized, desired, returned>>

\* one pass of the loop body
JoinProcessGroup ==
    /\ joiner.stage = "loop"
    /\ joiner.i <= Len(joiner.groups)
    /\ \E got \in GetChatOutcomes, fetch \in FetchOutcomes :
          LET group_identifier == joiner.groups[joiner.i]
              group_data == crawl_group_data(group_identifier, got, fetch)
              attempt == [identifier |-> group_identifier, got |-> got,
                          result |-> group_data.status]
          IN  IF group_data.status = "raise" /\ ~LoopBodyCatches(group_data)
              THEN joiner' = [joiner EXCEPT !.stage = "raised",
                                            !.attempts = Append(@, attempt)]
              ELSE joiner' =
                     [joiner EXCEPT
                        !.attempts = Append(@, attempt),
                        !.i = @ + 1,
                        !.joined_groups =
                           IF group_data.status # "data" THEN @
                           ELSE (group_data.group_info.id :> group_data) @@ @]
    /\ UNCHANGED <<args, src, outExists, outdir, pc, files, idx, exitCode, log,
                   warnings, processed, ai_generated, before, callers, bot,
                   tree, chat, selected, raw, sanitized, desired, returned>>

\* the loop is over: "Completed processing"
JoinFinish ==
    /\ joiner.stage = "loop"
    /\ joiner.i > Len(joiner.groups)
    /\ joiner' = [joiner EXCEPT !.stage = "returned"]
    /\ UNCHANGED <<args, src, outExists, outdir, pc, files, idx, exitCode, log,
                   warnings, processed, ai_generated, before, callers, bot,
                   tree, chat, selected, raw, sanitized, desired, returned>>

NextJoin == JoinReadList \/ JoinProcessGroup \/ JoinFinish

SpecJoin == InitJoin /\ [][NextJoin]_vars

----------------------------------------------------------------------------
(* groups_file.send_file_to_chat: verify the chat, then upload every match *)

\* what a matched path can be: a file that is sent, a file over the ceiling,
\* a file gone before getsize, an upload that times out, an upload the server
\* refuses, and a directory
MatchedPaths ==
    {[isfile |-> TRUE, size |-> MaxSize, getsize |-> "ok", open |-> "ok",
      send |-> "ok"],
     [isfile |-> TRUE, size |-> MaxSize + 1, getsize |-> "ok", open |-> "ok",
      send |-> "ok"],
     [isfile |-> TRUE, size |-> 0, getsize |-> "FileNotFoundError",
      open |-> "ok", send |-> "ok"],
     [isfile |-> TRUE, size |-> 0, getsize |-> "ok", open |-> "ok",
      send |-> "asyncio.TimeoutError"],
     [isfile |-> TRUE, size |-> 0, getsize |-> "ok", open |-> "ok",
      send |-> "Chat not found"],
     [isfile |-> FALSE, size |-> 0, getsize |-> "ok", open |-> "PermissionError",
      send |-> "ok"]}

\* glob.glob(path)
GlobResults == UNION {[1..k -> MatchedPaths] : k \in 0..MaxPaths}

\* what bot.get_chat can do in verify_chat_access
VerifyOutcomes == {"ok", "TelegramError", "RuntimeError"}

\* a verify_chat_access that lets every chat pass
VerifyChatAccessAlways(outcome) == TRUE

\* verify_chat_access: True when get_chat returned, False on TelegramError
\* (anything else is raised to the caller)
verify_chat_access(outcome) == outcome = "ok"

\* send_file got as far as calling bot.send_document
SendDocumentCalled(f) ==
    f.getsize = "ok" /\ SizeAllowed(f.size) /\ f.open = "ok"

\* the value send_file returns
send_file(f) == SendDocumentCalled(f) /\ f.send = "ok"

InitChat ==
    /\ \E files_ \in GlobResults, v \in VerifyOutcomes :
          chat = [stage |-> "ready", files |-> files_, verify |-> v, i |-> 1,
                  handled |-> <<>>, uploads |-> <<>>, successful |-> 0,
                  failed |-> 0]
    /\ callers = <<>>
    /\ bot = [stage |-> "idle"]
    /\ tree = <<>>
    /\ joiner = [stage |-> "idle"]
    /\ selected = [done |-> FALSE, listed |-> <<>>, kept |-> <<>>]
    /\ IdleRun
    /\ IdleFs
    /\ IdleSan
    /\ IdleAlloc

\* send_file_to_chat up to its loop
ChatVerify ==
    /\ chat.stage = "ready"
    /\ chat' = [chat EXCEPT !.stage =
                  IF chat.verify = "RuntimeError" THEN "raised"
                  ELSE IF ~verify_chat_access(chat.verify) THEN "returned"
                  ELSE IF chat.files = <<>> THEN "returned"
                  ELSE "loop"]
    /\ UNCHANGED <<args, src, outExists, outdir, pc, files, idx, exitCode, log,
                   warnings, processed, ai_generated, before, callers, bot,
                   tree, joiner, selected, raw, sanitized, desired, returned>>

\* one pass of the loop over the matched paths
ChatHandlePath ==
    /\ chat.stage = "loop"
    /\ chat.i <= Len(chat.files)
    /\ LET file_path == chat.files[chat.i]
           success == file_path.isfile /\ send_file(file_path)
       IN  chat' = [chat EXCEPT
                      !.handled = Append(@, chat.i),
                      !.uploads = IF file_path.isfile /\ SendDocumentCalled(file_path)
                                  THEN Append(@, chat.i) ELSE @,
                      !.successful = IF success THEN @ + 1 ELSE @,
                      !.failed = IF success THEN @ ELSE @ + 1,
                      !.i = @ + 1]
    /\ UNCHANGED <<args, src, outExists, outdir, pc, files, idx, exitCode, log,
                   warnings, processed, ai_generated, before, callers, bot,
                   tree, joiner, selected, raw, sanitized, desired, returned>>

\* the loop is over: the summary is printed
ChatSummary ==
    /\ chat.stage = "loop"
    /\ chat.i > Len(chat.files)
    /\ chat' = [chat EXCEPT !.stage = "returned"]
    /\ UNCHANGED <<args, src, outExists, outdir, pc, files, idx, exitCode, log,
                   warnings, processed, ai_generated, before, callers, bot,
                   tree, joiner, selected, raw, sanitized, desired, returned>>

NextChat == ChatVerify \/ ChatHandlePath \/ ChatSummary

SpecChat == InitChat /\ [][NextChat]_vars

----------------------------------------------------------------------------
(* Properties of the runs *)

\* the files of the input directory that pass the extension filters
Selected ==
    {f \in DOMAIN before.src :
        IF args.tool = "gf"
        THEN GfKeeps(f, args.include_ext, args.exclude_ext)
        ELSE OwgKeeps(f, args.include_ext, args.exclude_ext)}

FsUntouched == outExists = before.outExists /\ outdir = before.outdir

Finished == pc \in {"done", "crashed", "exit"}

AiFailures == {"nolib", "raise", "empty"}

\* C1: a dry run of generate_folders creates no directory and no file under
\* the output root, and prints a "would write" notice for every selected file.
C1_GfDryRunMutatesNothing ==
    (args.tool = "gf" /\ args.dry_run) =>
        /\ FsUntouched
        /\ pc = "done" =>
              \A f \in Selected :
                 \E i \in 1..Len(log) :
                    log[i].file = f /\ "would write README" \in log[i].notices

\* C2: process_files with dry_run creates no directory, copies, moves and
\* writes no file and leaves every source file in place, for every move_files,
\* overwrite and do_ai, while every file passing the filters is logged and
\* counted as processed.
C2_OwgDryRunMutatesNothing ==
    (args.tool = "owg" /\ args.dry_run) =>
        /\ FsUntouched
        /\ src = before.src
        /\ pc # "crashed"
        /\ pc = "done" =>
              /\ processed = Cardinality(Selected)
              /\ \A f \in Selected :
                    \E i \in 1..Len(log) :
                       /\ log[i].file = f
                       /\ log[i].completed
                       /\ "Preparing folder" \in log[i].notices

C2_Witness ==
    /\ args.tool = "owg" /\ args.dry_run /\ args.move_files /\ args.overwrite
    /\ args.use_ai
    /\ pc = "done"
    /\ processed = 2
    /\ Cardinality(DOMAIN before.src) = 2

\* C3: a copy or move that fails for one item is skipped and every later
\* item is still processed; a per-item failure never aborts the run.
C3_IoFailureSkipsItem ==
    \A i \in 1..Len(log) :
       log[i].io = "fail" =>
          /\ pc # "crashed"
          /\ pc = "done" => Len(log) = Cardinality(Selected)

\* C5: in one run of process_files, dry run or not, no two processed items
\* receive the same target folder path.
C5_OwgDistinctTargetFolders ==
    args.tool = "owg" =>
        \A i, j \in 1..Len(log) : i # j => log[i].folder # log[j].folder

\* C6: after a run that is no dry run, every target folder the run created
\* holds exactly one README document and exactly one metadata record.
C6_ReadmeAndMetadataInEveryFolder ==
    (~args.dry_run /\ pc = "done") =>
        \A d \in (DOMAIN outdir) \ (DOMAIN before.outdir) :
           /\ ReadmeName \in DOMAIN outdir[d].files
           /\ MetadataName \in DOMAIN outdir[d].files
           /\ outdir[d].files[MetadataName].kind = "metadata"

\* C7: when the text-generation call fails (library missing, call raises,
\* empty response) the item's README is the fixed template without AI
\* content, and the run is not aborted at that item.
C7_AiFailureFallsBackToTemplate ==
    \A i \in 1..Len(log) :
       log[i].ai \in AiFailures =>
          /\ log[i].completed
          /\ log[i].readme = "template"
          /\ pc = "crashed" => i < Len(log)
          /\ pc \in {"loop", "done"} => idx > i
          /\ ~args.dry_run =>
                /\ log[i].folder \in Occupied(outExists, outdir)
                /\ ReadmeName \in DOMAIN outdir[log[i].folder].files
                /\ outdir[log[i].folder].files[ReadmeName]
                      = ReadmeDoc(log[i].file, FALSE)

C7_Witness ==
    /\ ~args.dry_run
    /\ Len(log) = 2
    /\ log[1].ai = "raise"
    /\ log[2].ai = "empty"
    /\ log[2].completed
    /\ pc = "done"

\* C8: with text generation requested and no API key, a warning is emitted,
\* the service is called for no item, every item gets the template README
\* and the run ends with exit code 0.  Stated for the runs that reach the end
\* of main, that is, in which no copy or move raises.
C8_NoKeyTemplateForEveryItem ==
    (args.use_ai /\ ~args.has_key /\ args.input_ok /\ pc = "done") =>
        /\ exitCode = 0
        /\ log # <<>> => warnings >= 1
        /\ \A i \in 1..Len(log) : log[i].ai = "none"
        /\ \A f \in Selected :
              \E i \in 1..Len(log) :
                 log[i].file = f /\ log[i].readme = "template"

\* C9: with an input path that is missing or no directory, both organizers
\* end with a non-zero status (2 in generate_folders) before any work starts:
\* nothing is created under the output root and no item is processed.
C9_BadInputExitsBeforeWork ==
    (~args.input_ok /\ args.tool \in {"gf", "owg"}) =>
        /\ pc \in {"start", "exit"}
        /\ FsUntouched
        /\ files = <<>> /\ log = <<>> /\ processed = 0
        /\ pc = "exit" =>
              /\ exitCode > 0
              /\ args.tool = "gf" => exitCode = 2

C9_Witness ==
    /\ ~args.input_ok
    /\ pc = "exit"
    /\ exitCode = 2
    /\ ~args.dry_run
    /\ ~before.outExists

----------------------------------------------------------------------------
(* Properties of the allocator *)

\* C4: N successive calls of create_unique_subfolder with one root and one
\* desired name return pairwise distinct paths, none of which existed before
\* its call, and each returned path is a directory when its call returns.
C4_SuccessiveAllocationsDistinct ==
    LET created == {i \in 1..Len(returned) :
                      returned[i].fn = "create_unique_subfolder"}
    IN  /\ \A i, j \in created :
              i # j => returned[i].path # returned[j].path
        /\ \A i \in created :
              /\ ~returned[i].existed
              /\ outExists
              /\ returned[i].path \in DOMAIN outdir
              /\ outdir[returned[i].path].kind = "dir"

C4_Witness ==
    /\ Len(returned) = MaxCalls
    /\ \A i \in 1..Len(returned) : returned[i].fn = "create_unique_subfolder"
    /\ before.outExists
    /\ Cardinality(DOMAIN before.outdir) = 3

\* the name a call looks for first, the separator it appends and the first
\* number it tries
AllocName(fn) ==
    IF fn = "create_unique_subfolder"
    THEN sanitize_for_dir_name(desired)
    ELSE sanitize_folder_name(desired, Item)

AllocSeparator(fn) == IF fn = "create_unique_subfolder" THEN "-" ELSE "_"

AllocFirstNumber(fn) == IF fn = "create_unique_subfolder" THEN 2 ELSE 1

Numbered(fn, k) == AllocName(fn) \o <<AllocSeparator(fn)>> \o Decimal(k)

\* C15: the allocator returns root/name when that path is free; otherwise the
\* path with the smallest unused number, counting up from 2 with '-' in
\* create_unique_subfolder and from 1 with '_' in ensure_unique_path.
C15_SmallestUnusedDisambiguator ==
    \A i \in 1..Len(returned) :
       LET r == returned[i]
           first == AllocFirstNumber(r.fn)
       IN  IF AllocName(r.fn) \notin r.occupied
           THEN r.path = AllocName(r.fn)
           ELSE \E k \in first..(first + Cardinality(r.occupied)) :
                   /\ r.path = Numbered(r.fn, k)
                   /\ r.path \notin r.occupied
                   /\ \A j \in first..(k - 1) : Numbered(r.fn, j) \in r.occupied

C15_Witness ==
    /\ desired = <<"n","o","t","e","s">>
    /\ Len(returned) = 2
    /\ <<"n","o","t","e","s">> \in returned[1].occupied
    /\ returned[1].fn = "ensure_unique_path"
    /\ returned[1].path = <<"n","o","t","e","s","_","1">>
    /\ returned[2].fn = "create_unique_subfolder"
    /\ returned[2].path = <<"n","o","t","e","s","-","2">>

----------------------------------------------------------------------------
(* Properties of the sanitizers *)

OnlyFrom(s, allowed) == \A i \in 1..Len(s) : s[i] \in allowed

\* C10 as stated: both outputs are non-empty and use only A-Z, a-z, 0-9,
\* '.', '_', '-' (plus space for sanitize_folder_name).
C10_SanitizedInAsciiAllowSet ==
    sanitized.done =>
        /\ sanitized.dir # <<>> /\ OnlyFrom(sanitized.dir, AsciiAllowed)
        /\ sanitized.folder # <<>>
        /\ OnlyFrom(sanitized.folder, AsciiAllowed \cup {" "})

\* C10 amended: both outputs are non-empty; sanitize_for_dir_name uses only
\* A-Z, a-z, 0-9, '.', '_', '-'; sanitize_folder_name uses only characters
\* for which str.isalnum() is true (non-ASCII letters included), '.', '_',
\* '-' and space.
C10_SanitizedInAllowSet ==
    sanitized.done =>
        /\ sanitized.dir # <<>> /\ OnlyFrom(sanitized.dir, AsciiAllowed)
        /\ sanitized.folder # <<>>
        /\ \A i \in 1..Len(sanitized.folder) :
              \/ IsAlnum(sanitized.folder[i])
              \/ sanitized.folder[i] \in {".", "_", "-", " "}

C10_Witness ==
    /\ sanitized.done
    /\ raw = <<"/", "U+00E9", "/">>
    /\ sanitized.dir = Item
    /\ sanitized.folder = <<"U+00E9">>


\* C11: both sanitizers are idempotent: sanitize(sanitize(x)) = sanitize(x).
C11_SanitizersIdempotent ==
    sanitized.done =>
        /\ sanitized.dir2 = sanitized.dir
        /\ sanitized.folder2 = sanitized.folder

AsciiAlnum == LowerLetters \cup UpperLetters \cup Digits

\* C12: both sanitizers return "item" for "" and for "....", and whenever
\* replacement and stripping leave nothing: for sanitize_for_dir_name a name
\* without ASCII letter or digit; for sanitize_folder_name a name of spaces
\* only, or one without alphanumeric character, dash and space.
C12_FallbackWhenNothingIsLeft ==
    sanitized.done =>
        /\ OnlyFrom(raw, SanChars \ AsciiAlnum) => sanitized.dir = Item
        /\ (\/ OnlyFrom(raw, {" "})
            \/ \A i \in 1..Len(raw) : ~IsAlnum(raw[i]) /\ raw[i] \notin {"-", " "})
              => sanitized.folder = Item

C12_Witness ==
    /\ sanitized.done
    /\ raw = FourDots
    /\ sanitized.dir = Item
    /\ sanitized.folder = Item

\* the files the listing found, and those the filter kept
Listed == Range(selected.listed)
Kept == Range(selected.kept)

\* the suffix of the last path component, lowercased
LowerSuffix(path) == Lower(Suffix(PathName(path)))

\* a listed extension as written, lowercased
Literally(exts) == {Lower(e) : e \in Range(exts)}

\* a listed extension lowercased, with a dot put in front when it has none
Dotted(exts) ==
    {IF Len(e) > 0 /\ Head(e) = "." THEN Lower(e) ELSE <<".">> \o Lower(e) :
        e \in Range(exts)}

\* what a tool compares a suffix against
Compared(exts) == IF args.tool = "owg" THEN Dotted(exts) ELSE Literally(exts)

\* C13: with an include-list (and no exclude-list) the selector keeps exactly
\* the files whose suffix, leading dot included, equals a listed extension
\* under case-insensitive comparison, and drops every other file.
C13_IncludeKeepsExactlyListed ==
    (selected.done /\ args.include_ext # NoList /\ args.exclude_ext = NoList) =>
        Kept = {q \in Listed : LowerSuffix(q) \in Literally(args.include_ext)}

\* C13 (amended): as above, where organize_with_gemini first puts a dot in
\* front of a listed extension that has none.
C13_IncludeKeepsExactlyListedDotted ==
    (selected.done /\ args.include_ext # NoList /\ args.exclude_ext = NoList) =>
        Kept = {q \in Listed : LowerSuffix(q) \in Compared(args.include_ext)}

C13_Witness ==
    /\ selected.done
    /\ args.include_ext = <<Ext_txt>>
    /\ args.exclude_ext = NoList
    /\ Listed = {<<File_a_txt>>, <<File_b_csv>>, <<File_c_TXT>>}
    /\ Kept = {<<File_a_txt>>, <<File_c_TXT>>}

\* C14: a file whose suffix matches the exclude-list case-insensitively is
\* never selected, whatever the include-list; with an exclude-list and no
\* include-list every file whose suffix is not a listed extension is kept.
C14_ExcludeDropsExactlyListed ==
    selected.done =>
        /\ \A q \in Kept : LowerSuffix(q) \notin Literally(args.exclude_ext)
        /\ (args.exclude_ext # NoList /\ args.include_ext = NoList) =>
              \A q \in Listed :
                 LowerSuffix(q) \notin Literally(args.exclude_ext) => q \in Kept

\* C14 (amended): as above, where organize_with_gemini first puts a dot in
\* front of a listed extension that has none.
C14_ExcludeDropsExactlyListedDotted ==
    selected.done =>
        /\ \A q \in Kept : LowerSuffix(q) \notin Compared(args.exclude_ext)
        /\ (args.exclude_ext # NoList /\ args.include_ext = NoList) =>
              \A q \in Listed :
                 LowerSuffix(q) \notin Compared(args.exclude_ext) => q \in Kept

C14_Witness ==
    /\ selected.done
    /\ args.include_ext = <<Ext_txt>>
    /\ args.exclude_ext = <<Ext_TXT>>
    /\ <<File_a_txt>> \in Listed
    /\ <<File_c_TXT>> \in Listed
    /\ Kept = {}

----------------------------------------------------------------------------
(* Properties of concurrent allocation *)

\* C16: the allocator is not safe for concurrent callers. No caller ever
\* observes an error, and two callers that finish with the same folder can
\* only be callers whose calls overlapped: an interleaving in which both
\* obtain one path and neither sees an error exists (C16_Witness).
C16_CollisionsAreSilent ==
    /\ \A c \in Callers : ~callers[c].error /\ callers[c].pc # "failed"
    /\ \A c, d \in Callers :
          (/\ c # d
           /\ callers[c].pc = "done"
           /\ callers[d].pc = "done"
           /\ callers[c].path = callers[d].path)
             => (d \notin callers[c].began_after /\ c \notin callers[d].began_after)
    /\ \A c \in Callers :
          callers[c].pc = "done" =>
             /\ callers[c].path \in DOMAIN outdir
             /\ outdir[callers[c].path].kind = "dir"

C16_Witness ==
    /\ callers # <<>>
    /\ callers[1].pc = "done"
    /\ callers[2].pc = "done"
    /\ callers[1].path = callers[2].path
    /\ ~callers[1].error
    /\ ~callers[2].error

----------------------------------------------------------------------------
(* Properties of organize_with_gemini runs over an existing output *)

\* the folder name process_files derives for a file
OwnFolder(f) ==
    sanitize_folder_name(IF Stem(f) # <<>> THEN Stem(f) ELSE f, Item)

\* the file had its folder under the output directory when the run began
FolderWasThere(f) == before.outExists /\ OwnFolder(f) \in DOMAIN before.outdir

\* C17: without --overwrite, process_files skips an item whose folder already
\* exists under the output directory: no folder is created for it, nothing
\* is copied or written, and it is not counted as processed.
C17_ExistingFolderSkippedWithoutOverwrite ==
    (args.tool = "owg" /\ ~args.overwrite) =>
        /\ \A i \in 1..Len(log) : ~FolderWasThere(log[i].file)
        /\ (\A f \in DOMAIN before.src : FolderWasThere(f)) =>
              /\ processed = 0
              /\ FsUntouched

\* C19: in organize_with_gemini copy is the default: without --move every
\* source file is still at its source path, unchanged, after the run; with
\* --move (and no --dry-run) each processed file is gone from its source path
\* and is in its target folder under its original name.
C19_CopyKeepsSourceMoveRelocates ==
    args.tool = "owg" =>
        /\ ~args.move_files => src = before.src
        /\ (args.move_files /\ ~args.dry_run) =>
              \A i \in 1..Len(log) :
                 log[i].completed =>
                    /\ log[i].file \notin DOMAIN src
                    /\ log[i].folder \in DOMAIN outdir
                    /\ log[i].file \in DOMAIN outdir[log[i].folder].files
                    /\ outdir[log[i].folder].files[log[i].file]
                          = before.src[log[i].file]

----------------------------------------------------------------------------
(* Properties of groups_file.send_file *)

\* the call met one of the failures: size unreadable, file over the ceiling,
\* file not openable, upload not completed
SendFailure ==
    \/ bot.getsize # "ok"
    \/ bot.size > MaxSize
    \/ bot.open # "ok"
    \/ bot.send # "ok"

\* C20: send_file never calls bot.send_document for a file larger than
\* 50*1024*1024 bytes and returns False for it; on every failure it returns
\* False (it never raises); it returns True only after send_document has
\* completed.
C20_SizeCeilingAndFalseOnFailure ==
    bot.stage # "idle" =>
        /\ (bot.getsize = "ok" /\ bot.size > MaxSize) =>
              /\ bot.send_calls = 0
              /\ bot.stage = "returned" => bot.result = "False"
        /\ bot.stage \in {"ready", "awaiting", "returned"}
        /\ bot.stage = "returned" =>
              /\ bot.result \in {"True", "False"}
              /\ SendFailure => bot.result = "False"
        /\ bot.result = "True" =>
              /\ bot.completed
              /\ bot.send_calls = 1
              /\ bot.size <= MaxSize

C20_Witness ==
    /\ bot.stage = "returned"
    /\ bot.getsize = "ok"
    /\ bot.size = MaxSize + 1
    /\ bot.send = "ok"
    /\ bot.send_calls = 0
    /\ bot.result = "False"

----------------------------------------------------------------------------
(* Properties of the transferred original *)

\* C21: when the original is copied or moved into its target folder, the
\* folder holds the original content under the original file name when the
\* item is finished: the README and the metadata record never replace it,
\* whatever the source file is called, with or without --overwrite.
C21_OriginalSurvivesReadmeAndMetadata ==
    \A i \in 1..Len(log) :
       (log[i].completed /\ log[i].io = "ok") =>
          /\ log[i].folder \in Occupied(outExists, outdir)
          /\ log[i].file \in DOMAIN outdir[log[i].folder].files
          /\ outdir[log[i].folder].files[log[i].file] = before.src[log[i].file]

----------------------------------------------------------------------------
(* Properties of the sanitized names as path components *)

PathSeparators == {"/", "\\"}

\* root / name is a direct child of root: one component, not root, not above
DirectChildName(name) ==
    /\ name # <<>>
    /\ name # <<".">>
    /\ name # <<".", ".">>
    /\ \A i \in 1..Len(name) : name[i] \notin PathSeparators

\* C22: for every raw name the sanitized name contains no path separator and
\* is never '.' or '..', so the allocated target folder (the name itself or
\* the name with a number appended) is a direct child of the root.
C22_SanitizedIsDirectChild ==
    sanitized.done =>
        /\ DirectChildName(sanitized.dir)
        /\ DirectChildName(sanitized.folder)
        /\ DirectChildName(sanitized.subfolder)
        /\ DirectChildName(sanitized.dest_dir)

C22_Witness ==
    /\ sanitized.done
    /\ raw = <<".", ".", "/">>
    /\ sanitized.dir = Item
    /\ sanitized.folder = Item
    /\ sanitized.subfolder = <<"i","t","e","m","-","2">>

\* C23: sanitize_folder_name trims spaces: the returned name neither begins
\* nor ends with a space, and is never made of spaces only.
C23_FolderNameHasNoOuterSpace ==
    sanitized.done =>
        /\ sanitized.folder # <<>>
        /\ Head(sanitized.folder) # " "
        /\ sanitized.folder[Len(sanitized.folder)] # " "

\* s holds sep twice in a row
HasRun(s, sep) == \E i \in 1..(Len(s) - 1) : s[i] = sep /\ s[i + 1] = sep

\* s begins or ends with one of chars
HasOuter(s, chars) == s # <<>> /\ (Head(s) \in chars \/ s[Len(s)] \in chars)

\* C24: the sanitized name contains no run of two or more separator
\* characters ('-' in sanitize_for_dir_name, '_' in sanitize_folder_name) and
\* neither begins nor ends with the separator character or a dot.
C24_NoSeparatorRunsNoOuterSeparator ==
    sanitized.done =>
        /\ ~HasRun(sanitized.dir, "-")
        /\ ~HasOuter(sanitized.dir, {"-", "."})
        /\ ~HasRun(sanitized.folder, "_")
        /\ ~HasOuter(sanitized.folder, {"_", "."})

C24_Witness ==
    /\ sanitized.done
    /\ raw = TwoSlashes
    /\ sanitized.dir = <<"a", "-", "b">>
    /\ sanitized.folder = <<"a", "_", "b">>

----------------------------------------------------------------------------
(* Properties of the metadata record *)

\* C25: in a generate_folders run that is no dry run, the metadata record's
\* used_ai flag is true exactly when the README of the same item holds the
\* AI-generated section, and its model is non-null exactly when used_ai is
\* true; with AI disabled, the key missing, or the call failing or returning
\* empty text, used_ai is false and model is null.
C25_MetadataAgreesWithReadme ==
    (args.tool = "gf" /\ ~args.dry_run) =>
        \A i \in 1..Len(log) :
           log[i].completed =>
              LET made == outdir[log[i].folder].files
                  meta == made[MetadataName]
                  readme == made[ReadmeName]
              IN  /\ meta.kind = "metadata"
                  /\ readme.kind = "readme"
                  /\ meta.used_ai = readme.used_ai
                  /\ (meta.model # "null") = meta.used_ai
                  /\ (\/ ~args.use_ai
                      \/ ~args.has_key
                      \/ log[i].ai \in AiFailures)
                        => (~meta.used_ai /\ meta.model = "null")

C25_Witness ==
    /\ args.tool = "gf"
    /\ ~args.dry_run
    /\ Len(log) = 2
    /\ log[1].completed
    /\ log[2].completed
    /\ log[1].ai = "text"
    /\ log[2].ai = "empty"
    /\ outdir[log[1].folder].files[MetadataName].model = "model_name"
    /\ outdir[log[2].folder].files[MetadataName].model = "null"

----------------------------------------------------------------------------
(* Properties of the order of processing *)

\* the selected files in the order the loop visits them
Visited ==
    SelectSeq(files,
              LAMBDA f : args.tool = "gf"
                         \/ OwgKeeps(f, args.include_ext, args.exclude_ext))

\* C26: items are processed strictly one after another: for items i before j
\* the allocation, the copy or move and the writes of i are over before the
\* allocation of j, so the allocation of j observes the folder created for i
\* (and never returns it).
C26_ItemsOneAfterAnother ==
    /\ Len(log) <= Len(Visited)
    /\ \A i \in 1..Len(log) : log[i].file = Visited[i]
    /\ \A j \in 1..Len(log) : \A i \in 1..(j - 1) :
          /\ log[i].completed
          /\ log[i].seen \subseteq log[j].seen
          /\ (outExists /\ log[i].folder \in DOMAIN outdir) =>
                /\ log[i].folder \in log[j].seen
                /\ log[j].folder # log[i].folder

C26_Witness ==
    /\ pc = "done"
    /\ Len(log) = 2
    /\ log[1].folder = <<"a">>
    /\ log[1].folder \notin log[1].seen
    /\ log[1].folder \in log[2].seen
    /\ log[2].folder \in {<<"a", "-", "2">>, <<"a", "_", "1">>}

----------------------------------------------------------------------------
(* Properties of process_group_list *)

\* the identifiers of a list file: its lines without the white space around
\* them, empty lines and comment lines left out
RECURSIVE Identifiers(_)
Identifiers(lines) ==
    IF lines = <<>> THEN <<>>
    ELSE LET line == Strip(Head(lines), {" "})
         IN  IF line = <<>> \/ Head(line) = "#"
             THEN Identifiers(Tail(lines))
             ELSE <<line>> \o Identifiers(Tail(lines))

\* C27: process_group_list attempts every identifier read from the list file
\* exactly once and in file order; a failure or exception while crawling one
\* group never prevents the later groups from being attempted; joined_groups
\* holds an entry, keyed by chat id, only for identifiers whose chat was
\* fetched and is a group, a supergroup or a channel.
C27_EveryGroupAttemptedInOrder ==
    joiner.stage # "idle" =>
        /\ joiner.stage \in {"ready", "loop", "returned"}
        /\ Len(joiner.attempts) <= Len(joiner.groups)
        /\ \A k \in 1..Len(joiner.attempts) :
              joiner.attempts[k].identifier = joiner.groups[k]
        /\ (joiner.stage = "returned" /\ joiner.read = "ok") =>
              [k \in 1..Len(joiner.attempts) |-> joiner.attempts[k].identifier]
                 = Identifiers(joiner.lines)
        /\ \A c \in DOMAIN joiner.joined_groups :
              \E k \in 1..Len(joiner.attempts) :
                 /\ joiner.attempts[k].got \in {"group", "supergroup", "channel"}
                 /\ ChatIdOf(joiner.attempts[k].identifier) = c
                 /\ joiner.joined_groups[c].group_info.identifier
                       = joiner.attempts[k].identifier
                 /\ joiner.joined_groups[c].group_info.type = joiner.attempts[k].got

C27_Witness ==
    /\ joiner.stage = "returned"
    /\ joiner.lines = << <<" ">> \o Group_a \o <<" ">>, Group_b >>
    /\ Len(joiner.attempts) = 2
    /\ joiner.attempts[1].identifier = Group_a
    /\ joiner.attempts[1].result = "raise"
    /\ joiner.attempts[2].got = "channel"
    /\ DOMAIN joiner.joined_groups = {"chat_b"}

----------------------------------------------------------------------------
(* Properties of send_file_to_chat *)

\* C28: if the chat access verification fails no file is sent at all;
\* otherwise every matched path is handled exactly once and in order, a
\* failed upload never stops the remaining ones, and at the end successful
\* + failed equals the number of matched paths.
C28_VerifyThenEveryPathOnce ==
    chat.stage # "idle" =>
        /\ chat.verify # "ok" => (chat.handled = <<>> /\ chat.uploads = <<>>)
        /\ chat.handled = [k \in 1..Len(chat.handled) |-> k]
        /\ chat.successful + chat.failed = Len(chat.handled)
        /\ chat.successful =
              Cardinality({k \in 1..Len(chat.handled) :
                             /\ chat.files[k].isfile
                             /\ chat.files[k].getsize = "ok"
                             /\ chat.files[k].size <= MaxSize
                             /\ chat.files[k].open = "ok"
                             /\ chat.files[k].send = "ok"})
        /\ (chat.stage = "returned" /\ chat.verify = "ok") =>
              /\ Len(chat.handled) = Len(chat.files)
              /\ chat.successful + chat.failed = Len(chat.files)
        /\ chat.stage = "raised" => chat.verify = "RuntimeError"

C28_Witness ==
    /\ chat.stage = "returned"
    /\ chat.verify = "ok"
    /\ Len(chat.files) = 2
    /\ chat.files[1].size = MaxSize + 1
    /\ chat.files[2].size = MaxSize
    /\ chat.uploads = <<2>>
    /\ chat.successful = 1
    /\ chat.failed = 1

====
